---- MODULE Spec2Model ----
(***************************************************************************)
(* Model of the codebase analysis engine of code-doc-tool.                 *)
(*                                                                         *)
(* The repository holds two revisions of services.FileAnalyzer:            *)
(*   "flat"   src/unnamed/part_001: marker table file -> type, per-type    *)
(*            manifest parsing, directory tree, file inventory;            *)
(*   "parser" src/code-doc-tool/internal/services/file_analyzer.go:        *)
(*            marker table type -> files, extension-count fallback, a      *)
(*            Parser per project type (only NodeJSParser is in the file).  *)
(* The variable rev says which revision a behaviour runs.                  *)
(*                                                                         *)
(* Paths are sequences of names.  The relative path strings the code       *)
(* builds are kept apart as the code keeps them apart: "." is <<".">>,     *)
(* "./" is <<"./">>, "src/main.go" is <<"src", "main.go">>.                *)
(***************************************************************************)
EXTENDS Integers, Sequences, FiniteSets, TLC

VARIABLES
    fs,        \* the project root on disk
    rev,       \* revision of FileAnalyzer the behaviour runs: "flat" or "parser"
    pc,        \* position of AnalyzeProject
    project,   \* the models.Project under construction
    ret,       \* what AnalyzeProject returned: a project pointer (nil is <<>>) and an error
    nodes,     \* the flat mapping of buildDirectoryStructure
    pending,   \* keys of nodes that pass two has not iterated yet
    visited,   \* visits made by the walks of this run
    results,   \* outcome of the earlier run on the same root, if this is a second run
    cancelled, \* the caller of AnalyzeProject has asked for the run to stop
    jpc,       \* per upload job: position of UploadCodebase / processCodebase
    archive,   \* per upload job: the file uploaded for it
    disk,      \* the working directory of the server: path -> what the path holds
    poll,      \* per upload job: position of a GetStatus call and its answers so far
    result     \* per upload job: what AnalyzeProject was given to read and returned

analysisVars == <<fs, rev, pc, project, ret, nodes, pending, visited, results>>

jobVars == <<jpc, archive, disk, result, poll>>

vars == <<analysisVars, cancelled, jobVars>>

----------------------------------------------------------------------------
(* Bounds of the model *)

MaxEntries == 4

MaxDecls == 2

(* entries in an uploaded archive *)
MaxArchiveEntries == 2

----------------------------------------------------------------------------
(* Generic helpers *)

Last(s) == s[Len(s)]

Front(s) == SubSeq(s, 1, Len(s) - 1)

Range(s) == {s[i] : i \in 1..Len(s)}

RECURSIVE Perms(_)
Perms(S) ==
    IF S = {} THEN {<<>>}
    ELSE UNION {{<<x>> \o p : p \in Perms(S \ {x})} : x \in S}

RECURSIVE SeqsUpTo(_, _)
SeqsUpTo(S, n) ==
    IF n = 0 THEN {<<>>}
    ELSE LET shorter == SeqsUpTo(S, n - 1)
         IN shorter \cup {Append(s, x) : s \in {t \in shorter : Len(t) = n - 1}, x \in S}

(* The sequence s with its i-th element moved to the front. *)
MoveToFront(s, i) ==
    <<s[i]>> \o SubSeq(s, 1, i - 1) \o SubSeq(s, i + 1, Len(s))

(* Go leaves the iteration order of a map unspecified.  A loop that keeps   *)
(* the first key satisfying a test depends only on which key comes first,   *)
(* so the orders that put each key first realise every outcome.             *)
IterationOrders(decl) == {MoveToFront(decl, i) : i \in 1..Len(decl)}

----------------------------------------------------------------------------
(* The file system under the project root *)

(* Candidate entries below the root; a root holds a subset of them. *)
FileUniverse ==
    { <<"package.json">>, <<"composer.json">>, <<"go.mod">>, <<"app.py">>,
      <<"cli.py">>, <<".env">>, <<"Thumbs.db">>, <<"src", "main.go">>,
      <<"src", "lib", "util.js">>, <<"node_modules", "x.js">> }

DirUniverse ==
    { <<"src">>, <<"src", "lib">>, <<"node_modules">>, <<".git">> }

Universe == FileUniverse \cup DirUniverse

(* Names in the byte order os.ReadDir / readDirNames sorts them in. *)
NameOrder ==
    << ".env", ".git", "Thumbs.db", "app.py", "cli.py", "composer.json", "go.mod", "lib", "main.go", "node_modules", "package.json", "src",
       "util.js", "x.js" >>

NameRank ==
    [n \in {NameOrder[i] : i \in 1..Len(NameOrder)} |->
        CHOOSE i \in 1..Len(NameOrder) : NameOrder[i] = n]

NameIndex(n) == NameRank[n]

(* strings.HasPrefix(name, ".") over the names of the model *)
HasDotPrefix(name) == name \in {".env", ".git", ".next", ".nuxt", ".hidden"}

(* strings.ToLower(filepath.Ext(name)) over the names of the model *)
Ext(name) ==
    CASE name \in {"package.json", "composer.json"} -> ".json"
      [] name = "go.mod"    -> ".mod"
      [] name \in {"app.py", "cli.py"} -> ".py"
      [] name = ".env"      -> ".env"
      [] name = "main.go"   -> ".go"
      [] name = "Thumbs.db" -> ".db"
      [] name \in {"util.js", "x.js"} -> ".js"
      [] OTHER -> ""

RootNames == {"extracted", "build"}

Versions == <<"1.0.0", "2.0.0", "3.0.0">>

PackageNames == {"left-pad", "jest"}

NpmKeys == {"dependencies", "devDependencies", "peerDependencies"}

ComposerKeys == {"require", "require-dev"}

ManifestFiles == {<<"package.json">>, <<"composer.json">>}

KeysOf(m) == IF m = <<"package.json">> THEN NpmKeys ELSE ComposerKeys

(* A manifest text: well-formed JSON or not, and the members it declares   *)
(* in textual order; the i-th declaration carries the i-th version.        *)
WithVersions(s) ==
    [i \in 1..Len(s) |-> [key |-> s[i][1], name |-> s[i][2], version |-> Versions[i]]]

ManifestTexts(m) ==
    {[valid |-> FALSE, decls |-> <<>>]} \cup
    {[valid |-> TRUE, decls |-> WithVersions(s)] :
        s \in SeqsUpTo(KeysOf(m) \X PackageNames, MaxDecls)}

IsDir(f, p) == p = <<>> \/ p \in f.dirs

Exists(f, p) == f.rootExists /\ (p = <<>> \/ p \in f.files \/ p \in f.dirs)

(* info.Name() *)
Name(f, p) == IF p = <<>> THEN f.rootName ELSE Last(p)

(* info.Size(): every file of the model has one byte per path component *)
Size(f, p) == IF IsDir(f, p) THEN 0 ELSE Len(p)

ParentClosed(S) == \A p \in S : Len(p) > 1 => Front(p) \in S

NoText == [valid |-> TRUE, decls |-> <<>>]

EntrySets ==
    {S \in SUBSET Universe : Cardinality(S) <= MaxEntries /\ ParentClosed(S)}

TextsWithin(m, n) == {t \in ManifestTexts(m) : Len(t.decls) <= n}

(* The roots the model starts from: an existing root directory holding a   *)
(* parent-closed subset of the universe, at most one directory whose        *)
(* listing fails, and a text for each manifest that is present, entries,    *)
(* failures and declarations together numbering at most MaxEntries; or a    *)
(* root path that does not exist.                                           *)
IsStartRoot(f) ==
    \E E \in EntrySets, rn \in RootNames :
    \E U \in {{}} \cup {{d} : d \in (E \cap DirUniverse) \cup {<<>>}} :
    \E tp \in IF <<"package.json">> \in E
              THEN TextsWithin(<<"package.json">>, MaxEntries - Cardinality(E) - Cardinality(U))
              ELSE {NoText} :
    \E tc \in IF <<"composer.json">> \in E
              THEN TextsWithin(<<"composer.json">>,
                               MaxEntries - Cardinality(E) - Cardinality(U) - Len(tp.decls))
              ELSE {NoText} :
       f = [rootExists |-> TRUE, rootName |-> rn,
            files |-> E \cap FileUniverse, dirs |-> E \cap DirUniverse,
            unreadable |-> U,
            text |-> [m \in ManifestFiles |-> IF m = <<"package.json">> THEN tp ELSE tc]]

MissingRoot ==
    [rootExists |-> FALSE, rootName |-> "extracted", files |-> {}, dirs |-> {},
     unreadable |-> {}, text |-> [m \in ManifestFiles |-> NoText]]

----------------------------------------------------------------------------
(* filepath.Walk *)

(* The children of directory p in the order readDirNames returns them. *)
ChildrenOf(f, p) ==
    {q \in f.files \cup f.dirs : Len(q) = Len(p) + 1 /\ SubSeq(q, 1, Len(p)) = p}

RECURSIVE SortByName(_)
SortByName(S) ==
    IF S = {} THEN <<>>
    ELSE LET first == CHOOSE q \in S :
                        \A r \in S : NameIndex(Last(q)) <= NameIndex(Last(r))
         IN <<first>> \o SortByName(S \ {first})

(* FileAnalyzer.shouldSkip, flat revision *)
shouldSkip(f, p) ==
    LET name == Name(f, p)
        skipDirs == {"node_modules", "vendor", ".git", "dist", "build", "__pycache__"}
        skipFiles == {".DS_Store", "Thumbs.db"}
    IN IF (IF IsDir(f, p) THEN name \in skipDirs ELSE name \in skipFiles)
       THEN TRUE
       ELSE HasDotPrefix(name)

(* the walk functions with the error check of pass one left out: the      *)
(* error of a visit is swallowed instead of returned                       *)
WalkFn_SwallowsError(f, which, p, failed) ==
    CASE which = "build" ->
            IF failed THEN "nil"
            ELSE IF shouldSkip(f, p)
                 THEN (IF IsDir(f, p) THEN "SkipDir" ELSE "nil")
                 ELSE "nil"
      [] which = "files" -> IF failed THEN "err" ELSE "nil"
      [] OTHER -> "nil"

(* What the walk function of each walk returns for one visit:              *)
(*  "build"   buildDirectoryStructure, pass one                            *)
(*  "files"   analyzeFiles                                                 *)
(*  "ext"     detectProjectType of the parser revision, extension counts   *)
(*  "folders" BaseParser.analyzeFolderStructure                            *)
WalkFn(f, which, p, failed) ==
    CASE which = "build" ->
            IF failed THEN "err"
            ELSE IF shouldSkip(f, p)
                 THEN (IF IsDir(f, p) THEN "SkipDir" ELSE "nil")
                 ELSE "nil"
      [] which = "files" -> IF failed THEN "err" ELSE "nil"
      [] OTHER -> "nil"

(* walk of path/filepath: a directory is listed, then the function is      *)
(* called for it, then its entries are walked in name order; a non-nil     *)
(* return stops the walk, except SkipDir returned for a directory.         *)
RECURSIVE walk(_, _, _)
RECURSIVE walkNames(_, _, _)
walk(f, which, p) ==
    IF ~IsDir(f, p)
    THEN [visits |-> <<[path |-> p, failed |-> FALSE]>>, ret |-> WalkFn(f, which, p, FALSE)]
    ELSE LET failed == p \in f.unreadable
             err1 == WalkFn(f, which, p, failed)
             here == <<[path |-> p, failed |-> failed]>>
         IN IF failed \/ err1 # "nil"
            THEN [visits |-> here, ret |-> err1]
            ELSE LET rest == walkNames(f, which, SortByName(ChildrenOf(f, p)))
                 IN [visits |-> here \o rest.visits, ret |-> rest.ret]

walkNames(f, which, names) ==
    IF names = <<>> THEN [visits |-> <<>>, ret |-> "nil"]
    ELSE LET r == walk(f, which, Head(names))
         IN IF r.ret # "nil" /\ ~(IsDir(f, Head(names)) /\ r.ret = "SkipDir")
            THEN r
            ELSE LET rest == walkNames(f, which, Tail(names))
                 IN [visits |-> r.visits \o rest.visits, ret |-> rest.ret]

Walk(f, which) ==
    LET r == IF ~f.rootExists
             THEN [visits |-> <<[path |-> <<>>, failed |-> TRUE]>>,
                   ret |-> WalkFn(f, which, <<>>, TRUE)]
             ELSE walk(f, which, <<>>)
    IN [visits |-> r.visits, ret |-> IF r.ret = "SkipDir" THEN "nil" ELSE r.ret]

(* filepath.Rel(projectPath, path) *)
Rel(p) == IF p = <<>> THEN <<".">> ELSE p

(* filepath.Dir of a relative path *)
Dir(rel) == IF Len(rel) <= 1 THEN <<".">> ELSE Front(rel)

----------------------------------------------------------------------------
(* Project type detection *)

(* indicators of the flat revision, in the order the table is written *)
IndicatorFiles ==
    << "package.json", "composer.json", "requirements.txt", "go.mod",
       "pom.xml", "build.gradle", "Cargo.toml", "pubspec.yaml" >>

indicators(file) ==
    CASE file = "package.json"     -> "Node.js"
      [] file = "composer.json"    -> "PHP/Laravel"
      [] file = "requirements.txt" -> "Python"
      [] file = "go.mod"           -> "Go"
      [] file = "pom.xml"          -> "Java/Maven"
      [] file = "build.gradle"     -> "Java/Gradle"
      [] file = "Cargo.toml"       -> "Rust"
      [] file = "pubspec.yaml"     -> "Dart/Flutter"

(* detectProjectType answering with a concrete type when no indicator      *)
(* exists                                                                  *)
RECURSIVE detectProjectType_DefaultsToNode(_, _)
detectProjectType_DefaultsToNode(f, order) ==
    IF order = <<>> THEN "Node.js"
    ELSE IF Exists(f, <<Head(order)>>) THEN indicators(Head(order))
         ELSE detectProjectType_DefaultsToNode(f, Tail(order))

(* detectProjectType without the final return of "Unknown": the zero      *)
(* string comes back when no indicator exists                              *)
RECURSIVE detectProjectType_NoDefault(_, _)
detectProjectType_NoDefault(f, order) ==
    IF order = <<>> THEN ""
    ELSE IF Exists(f, <<Head(order)>>) THEN indicators(Head(order))
         ELSE detectProjectType_NoDefault(f, Tail(order))

(* detectProjectType of the flat revision, the table iterated in `order` *)
RECURSIVE detectProjectType(_, _)
detectProjectType(f, order) ==
    IF order = <<>> THEN "Unknown"
    ELSE IF Exists(f, <<Head(order)>>) THEN indicators(Head(order))
         ELSE detectProjectType(f, Tail(order))

(* indicators of the parser revision, in the order the table is written *)
IndicatorTypes ==
    << "Node.js", "Python", "PHP/Laravel", "Go", "Java", "Ruby/Rails", ".NET" >>

indicatorsExt(type) ==
    CASE type = "Node.js"     -> << <<"package.json">>, <<"node_modules">> >>
      [] type = "Python"      -> << <<"requirements.txt">>, <<"setup.py">>, <<"Pipfile">> >>
      [] type = "PHP/Laravel" -> << <<"composer.json">>, <<"artisan">>, <<"vendor">> >>
      [] type = "Go"          -> << <<"go.mod">>, <<"go.sum">> >>
      [] type = "Java"        -> << <<"pom.xml">>, <<"build.gradle">>, <<"src", "main", "java">> >>
      [] type = "Ruby/Rails"  -> << <<"Gemfile">>, <<"config.ru">>, <<"app", "models">> >>
      [] type = ".NET"        -> << <<"*.csproj">>, <<"*.sln">>, <<"Program.cs">> >>

(* the marker loop of the parser revision; "" when no marker exists *)
RECURSIVE detectByMarkers(_, _)
detectByMarkers(f, order) ==
    IF order = <<>> THEN ""
    ELSE IF \E i \in 1..Len(indicatorsExt(Head(order))) :
                Exists(f, indicatorsExt(Head(order))[i])
         THEN Head(order)
         ELSE detectByMarkers(f, Tail(order))

(* the switch on the extension in the fallback walk; "" counts nothing *)
TypeOfExt(ext) ==
    CASE ext \in {".js", ".ts", ".jsx", ".tsx"} -> "Node.js"
      [] ext = ".py"   -> "Python"
      [] ext = ".php"  -> "PHP/Laravel"
      [] ext = ".go"   -> "Go"
      [] ext = ".java" -> "Java"
      [] ext = ".rb"   -> "Ruby/Rails"
      [] ext = ".cs"   -> ".NET"
      [] OTHER -> ""

(* extensions: project type -> number of files counted for it *)
ExtensionCounts(f) ==
    LET v == Walk(f, "ext").visits
        counted == {i \in 1..Len(v) :
                      /\ ~v[i].failed
                      /\ ~IsDir(f, v[i].path)
                      /\ TypeOfExt(Ext(Last(v[i].path))) # ""}
        types == {TypeOfExt(Ext(Last(v[i].path))) : i \in counted}
    IN [t \in types |->
          Cardinality({i \in counted : TypeOfExt(Ext(Last(v[i].path))) = t})]

RECURSIVE maxCountLoop_KeepsLast(_, _, _, _)
maxCountLoop_KeepsLast(extensions, order, maxCount, detectedType) ==
    IF order = <<>> THEN detectedType
    ELSE IF Head(order) \in DOMAIN extensions
         THEN maxCountLoop_KeepsLast(extensions, Tail(order), extensions[Head(order)], Head(order))
         ELSE maxCountLoop_KeepsLast(extensions, Tail(order), maxCount, detectedType)

(* the loop keeping the first type whose count exceeds the maximum so far *)
RECURSIVE maxCountLoop(_, _, _, _)
maxCountLoop(extensions, order, maxCount, detectedType) ==
    IF order = <<>> THEN detectedType
    ELSE IF Head(order) \in DOMAIN extensions /\ extensions[Head(order)] > maxCount
         THEN maxCountLoop(extensions, Tail(order), extensions[Head(order)], Head(order))
         ELSE maxCountLoop(extensions, Tail(order), maxCount, detectedType)

(* detectProjectType of the parser revision.  The text of the function     *)
(* stops after the block for len(extensions) > 0; "Generic", the initial   *)
(* value of detectedType and the name of the fallback parser, is taken as  *)
(* what it returns when nothing was counted.                               *)
detectProjectTypeExt(f, markerOrder, countOrder) ==
    LET byMarker == detectByMarkers(f, markerOrder)
        extensions == ExtensionCounts(f)
    IN IF byMarker # "" THEN byMarker
       ELSE IF DOMAIN extensions # {}
            THEN maxCountLoop(extensions, countOrder, 0, "Generic")
            ELSE "Generic"

----------------------------------------------------------------------------
(* Dependency extraction *)

EmptyMap == [x \in {} |-> x]

(* json.Unmarshal into a map[string]string field tagged `key`: a name      *)
(* declared more than once keeps the value of its last declaration.        *)
Unmarshal(text, key) ==
    LET idx == {i \in 1..Len(text.decls) : text.decls[i].key = key}
        names == {text.decls[i].name : i \in idx}
        last(n) == CHOOSE i \in idx :
                      /\ text.decls[i].name = n
                      /\ \A j \in idx : text.decls[j].name = n => j <= i
    IN [n \in names |-> text.decls[last(n)].version]

(* the append with the Type of the development block pasted in *)
RangeAppend_DevelopmentType(m, order, type) ==
    [i \in 1..Len(order) |->
        [Name |-> order[i], Version |-> m[order[i]], Type |-> "development"]]

(* for name, version := range m { append(..., Dependency{...}) }, the map  *)
(* iterated in `order`                                                     *)
RangeAppend(m, order, type) ==
    [i \in 1..Len(order) |-> [Name |-> order[i], Version |-> m[order[i]], Type |-> type]]

(* project.Dependencies after the appends: a group exists once something   *)
(* was appended to it                                                      *)
Groups(prod, dev, peer) ==
    LET keys == (IF prod # <<>> THEN {"production"} ELSE {})
                \cup (IF dev # <<>> THEN {"development"} ELSE {})
                \cup (IF peer # <<>> THEN {"peer"} ELSE {})
    IN [k \in keys |-> CASE k = "production" -> prod
                         [] k = "development" -> dev
                         [] k = "peer" -> peer]

(* The orders in which the map decoded for `key` can be iterated. *)
MapOrders(text, key) == Perms(DOMAIN Unmarshal(text, key))

(* parsePackageJSON appending each section to the other group *)
parsePackageJSON_SwapsGroups(f, oProd, oDev) ==
    LET text == f.text[<<"package.json">>] IN
    IF ~Exists(f, <<"package.json">>) THEN [err |-> "ENOENT", deps |-> EmptyMap]
    ELSE IF ~text.valid THEN [err |-> "SyntaxError", deps |-> EmptyMap]
    ELSE [err |-> "nil",
          deps |-> Groups(
              RangeAppend(Unmarshal(text, "devDependencies"), oDev, "development"),
              RangeAppend(Unmarshal(text, "dependencies"), oProd, "production"),
              <<>>)]

(* FileAnalyzer.parsePackageJSON *)
parsePackageJSON(f, oProd, oDev) ==
    LET text == f.text[<<"package.json">>] IN
    IF ~Exists(f, <<"package.json">>) THEN [err |-> "ENOENT", deps |-> EmptyMap]
    ELSE IF ~text.valid THEN [err |-> "SyntaxError", deps |-> EmptyMap]
    ELSE [err |-> "nil",
          deps |-> Groups(
              RangeAppend(Unmarshal(text, "dependencies"), oProd, "production"),
              RangeAppend(Unmarshal(text, "devDependencies"), oDev, "development"),
              <<>>)]

(* FileAnalyzer.parseComposerJSON *)
parseComposerJSON(f, oProd, oDev) ==
    LET text == f.text[<<"composer.json">>] IN
    IF ~Exists(f, <<"composer.json">>) THEN [err |-> "ENOENT", deps |-> EmptyMap]
    ELSE IF ~text.valid THEN [err |-> "SyntaxError", deps |-> EmptyMap]
    ELSE [err |-> "nil",
          deps |-> Groups(
              RangeAppend(Unmarshal(text, "require"), oProd, "production"),
              RangeAppend(Unmarshal(text, "require-dev"), oDev, "development"),
              <<>>)]

(* NodeJSParser.ParseDependencies *)
ParseDependencies(f, oProd, oDev, oPeer) ==
    LET text == f.text[<<"package.json">>] IN
    IF ~Exists(f, <<"package.json">>) THEN [err |-> "ENOENT", deps |-> EmptyMap]
    ELSE IF ~text.valid THEN [err |-> "SyntaxError", deps |-> EmptyMap]
    ELSE [err |-> "nil",
          deps |-> Groups(
              RangeAppend(Unmarshal(text, "dependencies"), oProd, "production"),
              RangeAppend(Unmarshal(text, "devDependencies"), oDev, "development"),
              RangeAppend(Unmarshal(text, "peerDependencies"), oPeer, "peer"))]

----------------------------------------------------------------------------
(* Directory tree and file inventory *)

(* the node pass one stores for a visited path *)
NewNode(f, p) ==
    [Name |-> Name(f, p), Path |-> Rel(p), IsDir |-> IsDir(f, p),
     Size |-> IF p = <<>> THEN 0 ELSE Size(f, p), Children |-> <<>>]

(* pass one of buildDirectoryStructure: the walk and the nodes it leaves *)
buildNodes(f) ==
    LET w == Walk(f, "build")
        kept == {w.visits[i].path : i \in
                   {j \in 1..Len(w.visits) :
                      ~w.visits[j].failed /\ ~shouldSkip(f, w.visits[j].path)}}
    IN [err |-> w.ret, visits |-> w.visits,
        nodes |-> [k \in {Rel(p) : p \in kept} |->
                     NewNode(f, IF k = <<".">> THEN <<>> ELSE k)]]

(* the key pass two looks the parent of `path` up under *)
ParentKey(path) ==
    IF Dir(path) = <<".">> THEN <<"./">> ELSE Dir(path)

(* FileAnalyzer.isCodeFile *)
isCodeFile(ext) ==
    ext \in { ".js", ".ts", ".jsx", ".tsx", ".vue",
              ".php", ".py", ".go", ".java", ".c", ".cpp",
              ".html", ".css", ".scss", ".sass", ".less",
              ".json", ".xml", ".yaml", ".yml", ".md" }

(* FileAnalyzer.getLanguage *)
getLanguage(ext) ==
    CASE ext = ".js"   -> "JavaScript"
      [] ext = ".ts"   -> "TypeScript"
      [] ext = ".jsx"  -> "React"
      [] ext = ".tsx"  -> "React TypeScript"
      [] ext = ".vue"  -> "Vue.js"
      [] ext = ".php"  -> "PHP"
      [] ext = ".py"   -> "Python"
      [] ext = ".go"   -> "Go"
      [] ext = ".java" -> "Java"
      [] ext = ".html" -> "HTML"
      [] ext = ".css"  -> "CSS"
      [] ext = ".scss" -> "SCSS"
      [] ext = ".json" -> "JSON"
      [] ext = ".md"   -> "Markdown"
      [] OTHER -> "Unknown"

(* the FileInfo records the visits of analyzeFiles append, in visit order *)
RECURSIVE collectFiles(_, _)
collectFiles(f, visits) ==
    IF visits = <<>> THEN <<>>
    ELSE LET v == Head(visits)
             ext == Ext(Name(f, v.path))
         IN (IF v.failed \/ IsDir(f, v.path) \/ shouldSkip(f, v.path) \/ ~isCodeFile(ext)
             THEN <<>>
             ELSE <<[Name |-> Name(f, v.path), Path |-> Rel(v.path), Extension |-> ext,
                     Size |-> Size(f, v.path), Language |-> getLanguage(ext)]>>)
            \o collectFiles(f, Tail(visits))

(* FileAnalyzer.analyzeFiles *)
analyzeFiles(f) ==
    LET w == Walk(f, "files")
    IN [err |-> w.ret, visits |-> w.visits, files |-> collectFiles(f, w.visits)]

(* BaseParser.analyzeFolderStructure: a key relPath + "/" per directory    *)
(* below the root; the key is the path with "/" appended as a last element *)
dirDescriptions(name) ==
    CASE name = "src" -> "Main source code files"
      [] name = "lib" -> "Library and utility code"
      [] OTHER -> "Project-specific directory"

analyzeFolderStructure(f) ==
    LET w == Walk(f, "folders")
        dirsSeen == {w.visits[i].path : i \in
                       {j \in 1..Len(w.visits) :
                          /\ ~w.visits[j].failed
                          /\ IsDir(f, w.visits[j].path)
                          /\ w.visits[j].path # <<>>}}
    IN [k \in {Append(p, "/") : p \in dirsSeen} |-> dirDescriptions(k[Len(k) - 1])]

(* NodeJSParser.AnalyzeFolderStructure *)
nodeSpecific ==
    [k \in { <<"node_modules", "/">>, <<"types", "/">>, <<"__tests__", "/">>,
             <<".next", "/">>, <<".nuxt", "/">> } |->
        CASE k[1] = "node_modules" -> "Node.js dependencies"
          [] k[1] = "types"        -> "TypeScript type definitions"
          [] k[1] = "__tests__"    -> "Jest test files"
          [] k[1] = ".next"        -> "Next.js build output"
          [] k[1] = ".nuxt"        -> "Nuxt.js build output"]

AnalyzeFolderStructure(f) ==
    LET baseStructure == analyzeFolderStructure(f)
    IN [k \in DOMAIN baseStructure \cup DOMAIN nodeSpecific |->
          IF k \in DOMAIN baseStructure THEN baseStructure[k] ELSE nodeSpecific[k]]

----------------------------------------------------------------------------
(* AnalyzeProject *)

NewProject(f) ==
    [Name |-> f.rootName, Type |-> "", Dependencies |-> EmptyMap,
     Files |-> <<>>, Structure |-> <<>>, FolderStructure |-> EmptyMap]

NoReturn == [project |-> <<>>, err |-> "pending"]

Visits(which, visits) == {[walk |-> which, path |-> visits[i].path] : i \in 1..Len(visits)}

(* upload jobs: uuid.New() gives every upload an ID of its own *)
Jobs == {"job1", "job2"}

(* no upload has been received and the working directory is empty *)
NoJobs ==
    /\ jpc = [j \in Jobs |-> "NoUpload"]
    /\ archive = [j \in Jobs |-> <<>>]
    /\ disk = EmptyMap
    /\ result = [j \in Jobs |-> <<>>]
    /\ poll = [j \in Jobs |-> [pc |-> "idle", answer |-> "none", completed |-> FALSE]]

Init ==
    /\ cancelled = FALSE
    /\ NoJobs
    /\ IsStartRoot(fs) \/ fs = MissingRoot
    /\ rev \in {"flat", "parser"}
    /\ pc = "TypeDetection"
    /\ project = NewProject(fs)
    /\ ret = NoReturn
    /\ nodes = EmptyMap
    /\ pending = {}
    /\ visited = {}
    /\ results = <<>>

(* flat revision: project.Type = fa.detectProjectType(projectPath) *)
DetectType ==
    /\ pc = "TypeDetection"
    /\ rev = "flat"
    /\ \E type \in {detectProjectType(fs, order) :
                        order \in IterationOrders(IndicatorFiles)} :
          project' = [project EXCEPT !.Type = type]
    /\ pc' = "DependencyExtraction"
    /\ UNCHANGED <<cancelled, jobVars, fs, rev, ret, nodes, pending, visited, results>>

(* flat revision: fa.parseDependencies *)
parseDependencies(f, type, oProd, oDev) ==
    CASE type = "Node.js"     -> parsePackageJSON(f, oProd, oDev)
      [] type = "PHP/Laravel" -> parseComposerJSON(f, oProd, oDev)
      [] OTHER -> [err |-> "nil", deps |-> EmptyMap]

(* the manifest fa.parseDependencies reads for a type, and its two keys *)
ManifestOf(type) ==
    IF type = "PHP/Laravel"
    THEN [file |-> <<"composer.json">>, prod |-> "require", dev |-> "require-dev"]
    ELSE [file |-> <<"package.json">>, prod |-> "dependencies", dev |-> "devDependencies"]

(* flat revision: fa.parseDependencies and the return on its error *)
ParseDeps ==
    /\ pc = "DependencyExtraction"
    /\ rev = "flat"
    /\ LET m == ManifestOf(project.Type) IN
       \E oProd \in MapOrders(fs.text[m.file], m.prod),
          oDev \in MapOrders(fs.text[m.file], m.dev) :
          LET r == parseDependencies(fs, project.Type, oProd, oDev) IN
          IF r.err # "nil"
          THEN /\ pc' = "Failed"
               /\ ret' = [project |-> <<>>, err |-> r.err]
               /\ UNCHANGED project
          ELSE /\ pc' = "TreeConstruction"
               /\ project' = [project EXCEPT !.Dependencies = r.deps]
               /\ UNCHANGED ret
    /\ UNCHANGED <<cancelled, jobVars, fs, rev, nodes, pending, visited, results>>

(* flat revision: pass one of buildDirectoryStructure *)
BuildDirectoryWalk ==
    /\ pc = "TreeConstruction"
    /\ LET r == buildNodes(fs) IN
       /\ visited' = visited \cup Visits("build", r.visits)
       /\ IF r.err # "nil"
          THEN /\ pc' = "Failed"
               /\ ret' = [project |-> <<>>, err |-> "walk"]
               /\ UNCHANGED <<nodes, pending>>
          ELSE /\ nodes' = r.nodes
               /\ pending' = DOMAIN r.nodes
               /\ pc' = IF DOMAIN r.nodes = {} THEN "FileClassification" ELSE "TreeAttach"
               /\ UNCHANGED ret
    /\ UNCHANGED <<cancelled, jobVars, fs, rev, project, results>>

(* flat revision: one iteration of pass two, over any key not yet iterated *)
AttachNode ==
    /\ pc = "TreeAttach"
    /\ \E path \in pending :
          /\ pending' = pending \ {path}
          /\ IF path = <<".">>
             THEN /\ project' = [project EXCEPT !.Structure = Append(@, nodes[path])]
                  /\ UNCHANGED nodes
             ELSE /\ IF ParentKey(path) \in DOMAIN nodes
                     THEN nodes' = [nodes EXCEPT ![ParentKey(path)].Children =
                                                     Append(@, nodes[path])]
                     ELSE UNCHANGED nodes
                  /\ UNCHANGED project
          /\ pc' = IF pending' = {} THEN "FileClassification" ELSE "TreeAttach"
    /\ UNCHANGED <<cancelled, jobVars, fs, rev, ret, visited, results>>

(* AnalyzeFiles handing the half-built project back with the error *)
AnalyzeFiles_ReturnsPartial ==
    /\ pc = "FileClassification"
    /\ LET r == analyzeFiles(fs) IN
       /\ visited' = visited \cup Visits("files", r.visits)
       /\ IF r.err # "nil"
          THEN /\ pc' = "Failed"
               /\ ret' = [project |-> <<project>>, err |-> "walk"]
               /\ UNCHANGED project
          ELSE /\ pc' = "Assembled"
               /\ project' = [project EXCEPT !.Files = r.files]
               /\ ret' = [project |-> <<project'>>, err |-> "nil"]
    /\ UNCHANGED <<cancelled, jobVars, fs, rev, nodes, pending, results>>

(* flat revision: fa.analyzeFiles and the return of AnalyzeProject *)
AnalyzeFiles ==
    /\ pc = "FileClassification"
    /\ LET r == analyzeFiles(fs) IN
       /\ visited' = visited \cup Visits("files", r.visits)
       /\ IF r.err # "nil"
          THEN /\ pc' = "Failed"
               /\ ret' = [project |-> <<>>, err |-> "walk"]
               /\ UNCHANGED project
          ELSE /\ pc' = "Assembled"
               /\ project' = [project EXCEPT !.Files = r.files]
               /\ ret' = [project |-> <<project'>>, err |-> "nil"]
    /\ UNCHANGED <<cancelled, jobVars, fs, rev, nodes, pending, results>>

(* The types detectProjectType of the parser revision can answer with     *)
(* over the iteration orders of its two maps.  The marker loop reads only  *)
(* the order of indicators and the counting loop only the order of         *)
(* extensions, so varying one order at a time realises every pair.         *)
DetectedTypesExt(f) ==
    {detectProjectTypeExt(f, markerOrder, IndicatorTypes) :
        markerOrder \in IterationOrders(IndicatorTypes)}
    \cup {detectProjectTypeExt(f, IndicatorTypes, countOrder) :
             countOrder \in IterationOrders(IndicatorTypes)}

(* parser revision: detectProjectType and the choice of the parser.  Only  *)
(* NodeJSParser is in the file; a run that selects another parser leaves   *)
(* the code of the model at Handoff.                                       *)
DetectTypeExt ==
    /\ pc = "TypeDetection"
    /\ rev = "parser"
    /\ \E type \in DetectedTypesExt(fs) :
          project' = [project EXCEPT !.Type = type]
    /\ visited' = IF detectByMarkers(fs, IndicatorTypes) = ""
                  THEN visited \cup Visits("ext", Walk(fs, "ext").visits)
                  ELSE visited
    /\ pc' = IF project'.Type = "Node.js" THEN "ParserAnalysis" ELSE "Handoff"
    /\ UNCHANGED <<cancelled, jobVars, fs, rev, ret, nodes, pending, results>>

(* parser revision: the descriptive steps of NodeJSParser before the       *)
(* dependencies; the folder structure is the one that reads the root       *)
ParserAnalysis ==
    /\ pc = "ParserAnalysis"
    /\ project' = [project EXCEPT !.FolderStructure = AnalyzeFolderStructure(fs)]
    /\ visited' = visited \cup Visits("folders", Walk(fs, "folders").visits)
    /\ pc' = "DependencyExtraction"
    /\ UNCHANGED <<cancelled, jobVars, fs, rev, ret, nodes, pending, results>>

(* parser revision: parser.ParseDependencies and the return *)
ParseDepsExt ==
    /\ pc = "DependencyExtraction"
    /\ rev = "parser"
    /\ \E oProd \in MapOrders(fs.text[<<"package.json">>], "dependencies"),
          oDev \in MapOrders(fs.text[<<"package.json">>], "devDependencies"),
          oPeer \in MapOrders(fs.text[<<"package.json">>], "peerDependencies") :
          LET r == ParseDependencies(fs, oProd, oDev, oPeer) IN
          IF r.err # "nil"
          THEN /\ pc' = "Failed"
               /\ ret' = [project |-> <<>>, err |-> "dependency parsing failed"]
               /\ UNCHANGED project
          ELSE /\ pc' = "Assembled"
               /\ project' = [project EXCEPT !.Dependencies = r.deps]
               /\ ret' = [project |-> <<project'>>, err |-> "nil"]
    /\ UNCHANGED <<cancelled, jobVars, fs, rev, nodes, pending, visited, results>>

Finished == pc \in {"Assembled", "Failed", "Handoff"}

(* AnalyzeProject called again on the same, unchanged root *)
Rerun ==
    /\ Finished
    /\ results = <<>>
    /\ results' = Append(results, [Type |-> project.Type, ret |-> ret])
    /\ pc' = "TypeDetection"
    /\ project' = NewProject(fs)
    /\ ret' = NoReturn
    /\ nodes' = EmptyMap
    /\ pending' = {}
    /\ visited' = {}
    /\ UNCHANGED <<cancelled, jobVars, fs, rev>>

Next ==
    \/ DetectType
    \/ ParseDeps
    \/ BuildDirectoryWalk
    \/ AttachNode
    \/ AnalyzeFiles
    \/ DetectTypeExt
    \/ ParserAnalysis
    \/ ParseDepsExt
    \/ Rerun

Spec == Init /\ [][Next]_vars

(* The caller gives up on a run in progress.  AnalyzeProject takes the     *)
(* project path and nothing else: no step of it can read the request.      *)
Cancel ==
    /\ ~Finished
    /\ ~cancelled
    /\ cancelled' = TRUE
    /\ UNCHANGED <<analysisVars, jobVars>>

NextCancel == Next \/ Cancel

SpecCancel == Init /\ [][NextCancel]_vars

----------------------------------------------------------------------------
(* Upload jobs: UploadCodebase and the processCodebase goroutine of each *)

(* filepath.Clean over a sequence of path elements *)
RECURSIVE CleanFrom(_, _)
CleanFrom(acc, rest) ==
    IF rest = <<>> THEN acc
    ELSE IF Head(rest) = ".."
         THEN IF acc # <<>> /\ Last(acc) # ".."
              THEN CleanFrom(Front(acc), Tail(rest))
              ELSE CleanFrom(Append(acc, ".."), Tail(rest))
         ELSE CleanFrom(Append(acc, Head(rest)), Tail(rest))

(* filepath.Join(dest, name) *)
Join(dest, name) == CleanFrom(<<>>, dest \o name)

(* "./uploads/<jobID>" *)
UploadPath(j) == <<"uploads", j>>

(* filepath.Join(uploadPath, file.Filename) *)
FilePath(j) == <<"uploads", j, "codebase">>

(* "./uploads/<jobID>/extracted" *)
ExtractPath(j) == <<"uploads", j, "extracted">>

(* "./output/<jobID>_documentation.docx"; the file name is written as the  *)
(* job ID                                                                  *)
OutputPath(j) == <<"output", j>>

(* names an entry of an uploaded zip can carry (f.Name) *)
EntryNames ==
    {<<"package.json">>}
    \cup {<<"..", "..", k, "extracted", "package.json">> : k \in Jobs}
    \cup {<<"..", "..", "..", "output", k>> : k \in Jobs}

(* uploaded files: the extension of the file name, whether zip.OpenReader  *)
(* can read it, and the names of its entries                               *)
Archives ==
    {[ext |-> e, readable |-> FALSE, entries |-> {}] :
        e \in {".zip", ".tar", ".gz", ".txt"}}
    \cup {[ext |-> ".zip", readable |-> TRUE, entries |-> E] :
            E \in {S \in SUBSET EntryNames : Cardinality(S) <= MaxArchiveEntries}}

isValidArchive(ext) == ext \in {".zip", ".tar", ".gz"}

(* what a path of the working directory holds: a directory, or a file     *)
(* with the job whose upload its bytes come from                           *)
Directory == [dir |-> TRUE, from |-> ""]

FileFrom(j) == [dir |-> FALSE, from |-> j]

IsPrefix(a, b) == Len(a) <= Len(b) /\ SubSeq(b, 1, Len(a)) = a

(* os.MkdirAll: the directory and every missing directory above it *)
MkdirAll(d, p) ==
    LET new == {SubSeq(p, 1, i) : i \in 1..Len(p)} \ DOMAIN d
    IN [q \in DOMAIN d \cup new |-> IF q \in DOMAIN d THEN d[q] ELSE Directory]

(* os.OpenFile(O_WRONLY|O_CREATE|O_TRUNC) / os.Create followed by the copy *)
WriteFile(d, p, data) ==
    [q \in DOMAIN d \cup {p} |-> IF q = p THEN data ELSE d[q]]

(* utils.CleanupDir: os.RemoveAll *)
CleanupDir(d, p) == [q \in {q \in DOMAIN d : ~IsPrefix(p, q)} |-> d[q]]

(* the loop of extractZip over r.File *)
RECURSIVE extractZip(_, _, _)
extractZip(d, j, entries) ==
    IF entries = {} THEN d
    ELSE LET name == CHOOSE e \in entries : TRUE
             path == Join(ExtractPath(j), name)
         IN extractZip(WriteFile(MkdirAll(d, Front(path)), path, FileFrom(j)),
                       j, entries \ {name})

(* utils.ExtractArchive(filePath, extractPath) *)
ExtractArchive(d, j, a) ==
    IF a.ext # ".zip" THEN [err |-> "unsupported archive format", disk |-> d]
    ELSE IF ~a.readable THEN [err |-> "zip", disk |-> d]
    ELSE [err |-> "nil",
          disk |-> extractZip(MkdirAll(d, ExtractPath(j)), j, a.entries)]

(* the job IDs an entry name spells out, and the IDs handed out so far: a  *)
(* random ID can be written into an archive only after it was issued       *)
Mentions(name) == {k \in Jobs : \E i \in 1..Len(name) : name[i] = k}

Issued == {k \in Jobs : jpc[k] # "NoUpload"}

(* the handler of an upload, up to the start of the goroutine *)
UploadCodebase(j) ==
    /\ jpc[j] = "NoUpload"
    /\ \E a \in Archives, failure \in {"none", "CreateDir", "SaveFile"} :
          /\ \A name \in a.entries : Mentions(name) \subseteq Issued
          /\ archive' = [archive EXCEPT ![j] = <<a>>]
          /\ IF ~isValidArchive(a.ext)
             THEN /\ jpc' = [jpc EXCEPT ![j] = "Rejected"]
                  /\ UNCHANGED disk
             ELSE IF failure = "CreateDir"
             THEN /\ jpc' = [jpc EXCEPT ![j] = "Error"]
                  /\ UNCHANGED disk
             ELSE IF failure = "SaveFile"
             THEN /\ jpc' = [jpc EXCEPT ![j] = "Error"]
                  /\ disk' = MkdirAll(disk, UploadPath(j))
             ELSE /\ jpc' = [jpc EXCEPT ![j] = "Extract"]
                  /\ disk' = WriteFile(MkdirAll(disk, UploadPath(j)),
                                       FilePath(j), FileFrom(j))
    /\ UNCHANGED <<analysisVars, cancelled, poll, result>>

(* processCodebase: utils.ExtractArchive *)
ProcessExtract(j) ==
    /\ jpc[j] = "Extract"
    /\ LET r == ExtractArchive(disk, j, archive[j][1]) IN
          /\ disk' = r.disk
          /\ jpc' = [jpc EXCEPT ![j] = IF r.err = "nil" THEN "Analyze" ELSE "Stopped"]
    /\ UNCHANGED <<analysisVars, cancelled, poll, archive, result>>

(* the analysis step followed at once by the cleanup of the upload         *)
(* directory                                                               *)
ProcessAnalyze_CleansUp(j) ==
    /\ jpc[j] = "Analyze"
    /\ \E err \in {"nil", "error"} :
          /\ result' = [result EXCEPT ![j] =
                 <<[err |-> err,
                    sources |-> {disk[p].from :
                                   p \in {q \in DOMAIN disk :
                                            /\ IsPrefix(ExtractPath(j), q)
                                            /\ ~disk[q].dir}}]>>]
          /\ jpc' = [jpc EXCEPT ![j] = IF err = "nil" THEN "Generate" ELSE "Stopped"]
    /\ disk' = CleanupDir(disk, UploadPath(j))
    /\ UNCHANGED <<analysisVars, cancelled, poll, archive>>

(* processCodebase: analyzer.AnalyzeProject(extractPath); the run reads    *)
(* the files under the extracted root and returns a project or an error    *)
ProcessAnalyze(j) ==
    /\ jpc[j] = "Analyze"
    /\ \E err \in {"nil", "error"} :
          /\ result' = [result EXCEPT ![j] =
                 <<[err |-> err,
                    sources |-> {disk[p].from :
                                   p \in {q \in DOMAIN disk :
                                            /\ IsPrefix(ExtractPath(j), q)
                                            /\ ~disk[q].dir}}]>>]
          /\ jpc' = [jpc EXCEPT ![j] = IF err = "nil" THEN "Generate" ELSE "Stopped"]
    /\ UNCHANGED <<analysisVars, cancelled, poll, archive, disk>>

(* processCodebase: generator.GenerateDocumentation(project, outputPath) *)
ProcessGenerate(j) ==
    /\ jpc[j] = "Generate"
    /\ \E ok \in BOOLEAN :
          IF ok
          THEN /\ disk' = WriteFile(MkdirAll(disk, Front(OutputPath(j))),
                                    OutputPath(j), FileFrom(j))
               /\ jpc' = [jpc EXCEPT ![j] = "Cleanup"]
          ELSE /\ jpc' = [jpc EXCEPT ![j] = "Stopped"]
               /\ UNCHANGED disk
    /\ UNCHANGED <<analysisVars, cancelled, poll, archive, result>>

(* processCodebase: utils.CleanupDir("./uploads/<jobID>") *)
ProcessCleanup(j) ==
    /\ jpc[j] = "Cleanup"
    /\ disk' = CleanupDir(disk, UploadPath(j))
    /\ jpc' = [jpc EXCEPT ![j] = "Done"]
    /\ UNCHANGED <<analysisVars, cancelled, poll, archive, result>>

(* what GetStatus answers when both of its os.Stat calls see the disk d *)
GetStatus(d, j) ==
    IF OutputPath(j) \in DOMAIN d THEN "completed"
    ELSE IF UploadPath(j) \in DOMAIN d THEN "processing"
    ELSE "not found"

(* UploadCodebase has answered with the ID of the job *)
Accepted(j) == jpc[j] \in {"Extract", "Analyze", "Generate", "Cleanup", "Done", "Stopped"}

(* a GetStatus call for the ID of an accepted job: os.Stat(outputPath) *)
GetStatusStatOutput(j) ==
    /\ Accepted(j)
    /\ poll[j].pc = "idle"
    /\ poll' = [poll EXCEPT ![j] =
                   IF OutputPath(j) \in DOMAIN disk
                   THEN [pc |-> "idle", answer |-> "completed", completed |-> TRUE]
                   ELSE [@ EXCEPT !.pc = "StatUpload"]]
    /\ UNCHANGED <<analysisVars, cancelled, jpc, archive, disk, result>>

(* the same call: os.Stat(uploadPath) and the answer *)
GetStatusStatUpload(j) ==
    /\ poll[j].pc = "StatUpload"
    /\ poll' = [poll EXCEPT ![j] =
                   [@ EXCEPT !.pc = "idle",
                             !.answer = IF UploadPath(j) \in DOMAIN disk
                                        THEN "processing" ELSE "not found"]]
    /\ UNCHANGED <<analysisVars, cancelled, jpc, archive, disk, result>>

InitJobs ==
    /\ cancelled = FALSE
    /\ NoJobs
    /\ fs = MissingRoot
    /\ rev = "flat"
    /\ pc = "TypeDetection"
    /\ project = NewProject(fs)
    /\ ret = NoReturn
    /\ nodes = EmptyMap
    /\ pending = {}
    /\ visited = {}
    /\ results = <<>>

NextJobs ==
    \E j \in Jobs :
        \/ UploadCodebase(j)
        \/ ProcessExtract(j)
        \/ ProcessAnalyze(j)
        \/ ProcessGenerate(j)
        \/ ProcessCleanup(j)
        \/ GetStatusStatOutput(j)
        \/ GetStatusStatUpload(j)

SpecJobs == InitJobs /\ [][NextJobs]_vars

----------------------------------------------------------------------------
(* Properties *)

Detected == pc # "TypeDetection"

Returned == pc \in {"Assembled", "Failed"}

(* some marker of the revision's table exists under the root *)
MarkerExists ==
    IF rev = "flat"
    THEN \E i \in 1..Len(IndicatorFiles) : Exists(fs, <<IndicatorFiles[i]>>)
    ELSE \E i \in 1..Len(IndicatorTypes) :
            \E j \in 1..Len(indicatorsExt(IndicatorTypes[i])) :
                Exists(fs, indicatorsExt(IndicatorTypes[i])[j])

(* C1: two runs of detectProjectType over the same root, with a marker     *)
(* present, return the same project type.                                  *)
C1_MarkerDetectionDeterministic ==
    (results # <<>> /\ Detected /\ MarkerExists) => project.Type = results[1].Type

(* C2: with markers present, detectProjectType returns the type declared   *)
(* first in the marker table among the types with an existing marker.      *)
C2_FirstDeclaredMarkerWins ==
    (Detected /\ MarkerExists) =>
        project.Type = IF rev = "flat"
                       THEN detectProjectType(fs, IndicatorFiles)
                       ELSE detectByMarkers(fs, IndicatorTypes)

TypeLabels ==
    IF rev = "flat"
    THEN {"Node.js", "PHP/Laravel", "Python", "Go", "Java/Maven", "Java/Gradle",
          "Rust", "Dart/Flutter", "Unknown"}
    ELSE {"Node.js", "Python", "PHP/Laravel", "Go", "Java", "Ruby/Rails", ".NET",
          "Generic"}

(* C3: for every root, detectProjectType returns one non-empty label of    *)
(* the fixed set of project types or the unknown/generic label.            *)
C3_DetectionTotal ==
    Detected => (project.Type # "" /\ project.Type \in TypeLabels)

C3_Witness ==
    /\ Detected
    /\ fs.rootExists /\ fs.files = {} /\ fs.dirs = {}
    /\ project.Type \in {"Unknown", "Generic"}

RECURSIVE FlattenNode(_)
RECURSIVE FlattenNodes(_)
(* the relative paths of a node and of all nodes nested in its Children *)
FlattenNode(n) == <<n.Path>> \o FlattenNodes(n.Children)

FlattenNodes(s) ==
    IF s = <<>> THEN <<>> ELSE FlattenNode(Head(s)) \o FlattenNodes(Tail(s))

NoDuplicates(s) == \A i, j \in 1..Len(s) : i # j => s[i] # s[j]

TreeBuilt == rev = "flat" /\ pc \in {"FileClassification", "Assembled"}

(* C4: after buildDirectoryStructure, flattening project.Structure gives   *)
(* exactly the paths pass one retained, each once.                         *)
C4_TreeRoundTrip ==
    TreeBuilt =>
        /\ NoDuplicates(FlattenNodes(project.Structure))
        /\ Range(FlattenNodes(project.Structure)) = DOMAIN nodes

(* the manifest read for the detected type and the group of each its keys  *)
ReadManifest ==
    IF rev = "flat" /\ project.Type = "PHP/Laravel"
    THEN <<"composer.json">> ELSE <<"package.json">>

GroupOfKey(key) ==
    CASE key \in {"dependencies", "require"} -> "production"
      [] key \in {"devDependencies", "require-dev"} -> "development"
      [] key = "peerDependencies" -> "peer"

DepsParsed ==
    /\ project.Type \in {"Node.js", "PHP/Laravel"}
    /\ \/ rev = "flat" /\ pc \in {"TreeConstruction", "TreeAttach", "FileClassification", "Assembled"}
       \/ rev = "parser" /\ project.Type = "Node.js" /\ pc = "Assembled"

(* C5: a name declared twice under one key of the manifest yields two      *)
(* Dependency entries in the key's group.                                  *)
C5_DuplicateDeclarationsKept ==
    DepsParsed =>
        LET decls == fs.text[ReadManifest].decls IN
        \A i, j \in 1..Len(decls) :
            (i < j /\ decls[i].key = decls[j].key /\ decls[i].name = decls[j].name
                   /\ (rev = "flat" => decls[i].key # "peerDependencies")) =>
                LET g == GroupOfKey(decls[i].key) IN
                /\ g \in DOMAIN project.Dependencies
                /\ Cardinality({k \in 1..Len(project.Dependencies[g]) :
                                  project.Dependencies[g][k].Name = decls[i].name}) >= 2

IgnoreList == {"node_modules", "vendor", ".git", "dist", "build", "__pycache__"}

(* C6: no walk of a run (tree construction, file inventory, extension      *)
(* counting) visits an entry inside a directory of the ignore list.        *)
C6_IgnoredDirectoriesPruned ==
    \A v \in visited :
        v.walk \in {"build", "files", "ext"} =>
            \A i \in 1..(Len(v.path) - 1) : v.path[i] \notin IgnoreList

(* C7: with the manifest of the detected ecosystem absent, the run returns *)
(* a result with no dependencies and no error.                             *)
C7_AbsentManifestIsEmptyResult ==
    (Returned /\ project.Type \in {"Node.js", "PHP/Laravel"} /\ ~Exists(fs, ReadManifest)) =>
        /\ ret.err = "nil"
        /\ ret.project # <<>>
        /\ ret.project[1].Dependencies = EmptyMap

(* C8: with the manifest present but not valid JSON, the run still returns *)
(* a result, with empty dependency groups and the type set.                *)
C8_MalformedManifestIsDegraded ==
    (Returned /\ project.Type \in {"Node.js", "PHP/Laravel"}
        /\ Exists(fs, ReadManifest) /\ ~fs.text[ReadManifest].valid) =>
        /\ ret.err = "nil"
        /\ ret.project # <<>>
        /\ ret.project[1].Dependencies = EmptyMap
        /\ ret.project[1].Type = project.Type

(* C9: when the root path does not exist, AnalyzeProject returns an error  *)
(* and a nil project, and no step after the failing one runs.              *)
C9_MissingRootIsFatal ==
    ~fs.rootExists =>
        /\ pc \notin {"TreeAttach", "FileClassification", "Assembled"}
        /\ ret.project = <<>>
        /\ pc = "Failed" => ret.err # "nil"

C9_Witness ==
    ~fs.rootExists /\ rev = "flat" /\ pc = "Failed" /\ ret.err = "walk"

(* C10: a directory below the root whose listing fails does not abort the  *)
(* analysis: a run whose dependency step succeeded still returns a result. *)
C10_ReadErrorBelowRootIsNotFatal ==
    (rev = "flat" /\ Returned /\ ret.err \notin {"SyntaxError", "ENOENT"}
        /\ fs.unreadable # {} /\ <<>> \notin fs.unreadable) =>
        /\ pc = "Assembled"
        /\ ret.project # <<>>

(* a file the fallback walk can reach: no directory above it is unreadable *)
Reachable(p) == \A i \in 0..(Len(p) - 1) : SubSeq(p, 1, i) \notin fs.unreadable

(* the number of reachable files under the root whose extension maps to t *)
FilesOfType(t) ==
    Cardinality({p \in fs.files : Reachable(p) /\ TypeOfExt(Ext(Last(p))) = t})

ExtTypes ==
    {"Node.js", "Python", "PHP/Laravel", "Go", "Java", "Ruby/Rails", ".NET"}

C12_NoSignalIsUnknown ==
    (Detected /\ ~MarkerExists
       /\ \A p \in fs.files : TypeOfExt(Ext(Last(p))) = "") =>
        /\ project.Type = IF rev = "flat" THEN "Unknown" ELSE "Generic"
        /\ pc = "Failed" => ret.err = "walk"

C12_Witness ==
    /\ Detected /\ rev = "flat"
    /\ fs.files = {<<"Thumbs.db">>, <<".env">>} /\ fs.dirs = {<<".git">>}
    /\ project.Type = "Unknown"


(* the entries of a dependency group; a group never appended to is empty *)
GroupOf(deps, group) == IF group \in DOMAIN deps THEN deps[group] ELSE <<>>

(* the root holds package.json and nothing else; the manifest is well      *)
(* formed, declares each package once under "dependencies" and has no      *)
(* "devDependencies"                                                       *)
OnlyPackageJson ==
    LET decls == fs.text[<<"package.json">>].decls IN
    /\ fs.rootExists /\ fs.unreadable = {}
    /\ fs.files = {<<"package.json">>} /\ fs.dirs = {}
    /\ fs.text[<<"package.json">>].valid
    /\ \A i \in 1..Len(decls) : decls[i].key # "devDependencies"
    /\ \A i, j \in 1..Len(decls) :
          (i # j /\ decls[i].key = "dependencies" /\ decls[j].key = "dependencies")
              => decls[i].name # decls[j].name

(* C13: for a root holding only a package.json with a dependencies map D   *)
(* and no devDependencies, the run returns a Node.js project whose         *)
(* production group has exactly one entry {name, version, production} per  *)
(* pair of D and whose development group has no entry.                     *)
C13_PackageJsonOnly ==
    (OnlyPackageJson /\ Returned) =>
        LET decls == fs.text[<<"package.json">>].decls
            D == {i \in 1..Len(decls) : decls[i].key = "dependencies"}
            production == GroupOf(ret.project[1].Dependencies, "production")
        IN /\ pc = "Assembled" /\ ret.err = "nil"
           /\ ret.project[1].Type = "Node.js"
           /\ Len(production) = Cardinality(D)
           /\ Range(production) =
                 {[Name |-> decls[i].name, Version |-> decls[i].version,
                   Type |-> "production"] : i \in D}
           /\ GroupOf(ret.project[1].Dependencies, "development") = <<>>

C13_Witness ==
    /\ OnlyPackageJson /\ pc = "Assembled" /\ rev = "flat"
    /\ Len(GroupOf(ret.project[1].Dependencies, "production")) = 2


(* C14: for a root that is an empty directory the run returns, without an  *)
(* error, a project of the unknown type with no dependency group, no file  *)
(* and a Structure of exactly one root node without children.              *)
C14_EmptyRoot ==
    (rev = "flat" /\ Returned
       /\ fs.rootExists /\ fs.unreadable = {} /\ fs.files = {} /\ fs.dirs = {}) =>
        /\ pc = "Assembled" /\ ret.err = "nil"
        /\ ret.project[1].Type = "Unknown"
        /\ ret.project[1].Dependencies = EmptyMap
        /\ ret.project[1].Files = <<>>
        /\ Len(ret.project[1].Structure) = 1
        /\ ret.project[1].Structure[1].Path = <<".">>
        /\ ret.project[1].Structure[1].IsDir
        /\ ret.project[1].Structure[1].Children = <<>>


(* two dependency mappings with the same groups and the same entries in    *)
(* each group, the order inside a group left open                          *)
SameGroups(a, b) ==
    /\ DOMAIN a = DOMAIN b
    /\ \A g \in DOMAIN a : Len(a[g]) = Len(b[g]) /\ Range(a[g]) = Range(b[g])

(* two returns of AnalyzeProject that a caller cannot tell apart *)
SameReturn(a, b) ==
    /\ a.err = b.err
    /\ Len(a.project) = Len(b.project)
    /\ a.project # <<>> =>
          /\ a.project[1].Type = b.project[1].Type
          /\ SameGroups(a.project[1].Dependencies, b.project[1].Dependencies)
          /\ a.project[1].Files = b.project[1].Files
          /\ a.project[1].Structure = b.project[1].Structure

(* C15: a second run of AnalyzeProject over the same unchanged root        *)
(* returns what the first run returned: same error or same type,           *)
(* dependency groups, file inventory and tree.                             *)
C15_RerunIdempotent ==
    (results # <<>> /\ results[1].ret.err # "pending" /\ Returned) =>
        SameReturn(results[1].ret, ret)


(* C16: once the caller has cancelled a run in progress, no step of the    *)
(* run completes: the run returns no project, only a cancellation error.   *)
C16_CancellationObserved ==
    (cancelled /\ Returned) => (ret.err = "cancelled" /\ ret.project = <<>>)


(* the job a path of the working directory belongs to: its upload          *)
(* directory with everything below, and its output file                    *)
Owner(p) ==
    IF Len(p) >= 2 /\ p[1] \in {"uploads", "output"} /\ p[2] \in Jobs
    THEN p[2] ELSE "none"

(* C17: under every interleaving of two upload jobs, the files of a job -  *)
(* its upload directory, its extracted root, its output file - hold only   *)
(* what that job wrote, and the analysis of a job reads only files of its  *)
(* own upload.                                                             *)
C17_JobsIndependent ==
    /\ \A p \in DOMAIN disk :
          (~disk[p].dir /\ Owner(p) # "none") => disk[p].from = Owner(p)
    /\ \A j \in Jobs : result[j] # <<>> => result[j][1].sources \subseteq {j}


(* pass one of buildDirectoryStructure has filled the flat mapping *)
PassOneDone == rev = "flat" /\ pc \in {"TreeAttach", "FileClassification", "Assembled"}

(* C18: for every non-root node pass one retained, the parent key pass two *)
(* computes for it is a key of the flat mapping; for a top-level entry it  *)
(* is the key the root node is stored under.                               *)
C18_ParentKeyPresent ==
    PassOneDone =>
        \A path \in DOMAIN nodes \ {<<".">>} :
            /\ ParentKey(path) \in DOMAIN nodes
            /\ Len(path) = 1 => ParentKey(path) = <<".">>

RECURSIVE NodesUnder(_)
RECURSIVE NodesUnderAll(_)
(* a node and all nodes nested in its Children *)
NodesUnder(n) == <<n>> \o NodesUnderAll(n.Children)

NodesUnderAll(s) ==
    IF s = <<>> THEN <<>> ELSE NodesUnder(Head(s)) \o NodesUnderAll(Tail(s))

(* the retained paths whose directory is `path` *)
RecordedChildren(path) ==
    {k \in DOMAIN nodes \ {<<".">>} : Dir(k) = path}

(* C19: when buildDirectoryStructure has returned, every node reachable    *)
(* from project.Structure carries, as its Children, all the nodes retained *)
(* for the entries of its directory.                                       *)
C19_ChildrenComplete ==
    TreeBuilt =>
        LET reachable == NodesUnderAll(project.Structure) IN
        \A i \in 1..Len(reachable) :
            {reachable[i].Children[c].Path : c \in 1..Len(reachable[i].Children)}
                = RecordedChildren(reachable[i].Path)

(* C20: a retained node whose computed parent key is not in the flat       *)
(* mapping is not dropped in silence: when buildDirectoryStructure has     *)
(* returned nil, such a node is still found in project.Structure.          *)
C20_OrphanNotDroppedSilently ==
    TreeBuilt =>
        \A path \in DOMAIN nodes \ {<<".">>} :
            ParentKey(path) \notin DOMAIN nodes =>
                path \in Range(FlattenNodes(project.Structure))


(* the position a run may take after a position, a failure apart; pass two *)
(* of the tree construction is part of the tree construction               *)
NextSteps(p) ==
    CASE p = "TypeDetection" ->
             IF rev = "flat" THEN {"DependencyExtraction"}
             ELSE {"ParserAnalysis", "Handoff"}
      [] p = "ParserAnalysis" -> {"DependencyExtraction"}
      [] p = "DependencyExtraction" ->
             IF rev = "flat" THEN {"TreeConstruction"} ELSE {"Assembled"}
      [] p = "TreeConstruction" -> {"TreeAttach", "FileClassification"}
      [] p = "TreeAttach" -> {"TreeAttach", "FileClassification"}
      [] p = "FileClassification" -> {"Assembled"}
      [] OTHER -> {}

(* C21: within one run the steps follow the fixed order type detection,    *)
(* dependency extraction, tree construction, file classification; nothing  *)
(* is revisited and nothing runs after a failure; the run ends Assembled   *)
(* with a project and no error, or Failed with a nil project and an error. *)
C21_LinearStateMachine ==
    [][ results' = results =>
          /\ pc' \in NextSteps(pc) \cup {"Failed"}
          /\ pc' = "Assembled" => (ret'.err = "nil" /\ Len(ret'.project) = 1)
          /\ pc' = "Failed" =>
                (ret'.err \notin {"nil", "pending"} /\ ret'.project = <<>>)
          /\ pc' \notin {"Assembled", "Failed"} => ret' = NoReturn ]_vars

C21_Witness ==
    /\ rev = "flat" /\ pc = "Assembled" /\ results = <<>>
    /\ \E v \in visited : v.walk = "build" /\ v.path = <<"src", "main.go">>
    /\ \E v \in visited : v.walk = "files" /\ v.path = <<"src", "main.go">>
    /\ project.Type = "Go"


(* a file the policy excludes for its name: hidden or OS metadata *)
HiddenFile(p) ==
    p \in fs.files /\ (HasDotPrefix(Last(p)) \/ Last(p) \in {".DS_Store", "Thumbs.db"})

(* the entries next to p that the policy does not match *)
KeptSiblings(p) ==
    {q \in (fs.files \cup fs.dirs) \ {p} : Front(q) = Front(p) /\ ~shouldSkip(fs, q)}

(* the relative paths of the file inventory of a project *)
FilePaths(files) == {files[i].Path : i \in 1..Len(files)}

(* C22: a hidden or OS-metadata file in a directory the tree retained is   *)
(* in neither the tree nor the file inventory of the result, while every   *)
(* sibling the policy does not match is in the tree and, if it is a code   *)
(* file, in the file inventory.                                            *)
C22_HiddenFileKeepsSiblings ==
    (rev = "flat" /\ pc = "Assembled") =>
        \A p \in fs.files :
            (HiddenFile(p) /\ Rel(Front(p)) \in DOMAIN nodes) =>
                /\ p \notin Range(FlattenNodes(project.Structure))
                /\ p \notin FilePaths(project.Files)
                /\ \A q \in KeptSiblings(p) :
                      /\ q \in Range(FlattenNodes(project.Structure))
                      /\ (q \in fs.files /\ isCodeFile(Ext(Last(q)))) =>
                             q \in FilePaths(project.Files)


(* C23: in the dependencies of a run, every entry stored under group key k *)
(* has the classification k, and it comes from a declaration under a       *)
(* manifest key of that group: dependencies/require for production,        *)
(* devDependencies/require-dev for development, peerDependencies for peer. *)
C23_ClassificationMatchesGroup ==
    DepsParsed =>
        LET decls == fs.text[ReadManifest].decls IN
        \A g \in DOMAIN project.Dependencies :
            /\ g \in {"production", "development", "peer"}
            /\ \A k \in 1..Len(project.Dependencies[g]) :
                  /\ project.Dependencies[g][k].Type = g
                  /\ \E i \in 1..Len(decls) :
                        /\ GroupOfKey(decls[i].key) = g
                        /\ decls[i].name = project.Dependencies[g][k].Name
                        /\ decls[i].version = project.Dependencies[g][k].Version

C23_Witness ==
    /\ rev = "parser" /\ pc = "Assembled"
    /\ DOMAIN project.Dependencies = {"production", "peer"}


(* C24: the upload directory of a job, with the extracted root in it, is   *)
(* there as long as the job is being extracted, analysed or rendered; it   *)
(* is gone only for a job never stored or a job that finished, and a       *)
(* finished job has its output file.                                       *)
C24_CleanupAfterRender ==
    \A j \in Jobs :
        /\ jpc[j] \in {"Extract", "Analyze", "Generate", "Cleanup"} =>
              UploadPath(j) \in DOMAIN disk
        /\ jpc[j] \in {"Analyze", "Generate", "Cleanup"} =>
              ExtractPath(j) \in DOMAIN disk
        /\ (jpc[j] \notin {"NoUpload", "Rejected", "Error"}
              /\ UploadPath(j) \notin DOMAIN disk) =>
              (jpc[j] = "Done" /\ OutputPath(j) \in DOMAIN disk)

C24_Witness ==
    \E j \in Jobs :
        /\ jpc[j] = "Done"
        /\ UploadPath(j) \notin DOMAIN disk
        /\ OutputPath(j) \in DOMAIN disk /\ disk[OutputPath(j)].from = j


(* C25: a job whose upload was accepted does not stay "processing": once   *)
(* its processCodebase goroutine has returned, with or without a failure,  *)
(* nothing more will be done for the job, and GetStatus reports it as      *)
(* completed or shows its failure.                                         *)
C25_JobLeavesProcessing ==
    \A j \in Jobs :
        jpc[j] \in {"Done", "Stopped"} => GetStatus(disk, j) # "processing"

(* C26: the answers of GetStatus for the ID of an accepted job never       *)
(* include "Job not found", and after an answer "completed" every answer   *)
(* is "completed".                                                         *)
C26_StatusMonotonic ==
    \A j \in Jobs :
        /\ poll[j].answer # "not found"
        /\ poll[j].completed => poll[j].answer = "completed"


(* C27: an upload that passed isValidArchive never fails its extraction    *)
(* with the unsupported-archive-format error: a job that stopped before    *)
(* its analysis stopped for another reason.                                *)
C27_AcceptedFormatsExtract ==
    \A j \in Jobs :
        (jpc[j] = "Stopped" /\ result[j] = <<>>) =>
            ExtractArchive(disk, j, archive[j][1]).err # "unsupported archive format"


(* C28: every record of the file inventory of a returned project has a     *)
(* path that is a key of the flat tree mapping built in the same run; no   *)
(* record lies under a directory the tree builder pruned.                  *)
C28_FilesWithinTree ==
    (rev = "flat" /\ pc = "Assembled") =>
        FilePaths(project.Files) \subseteq DOMAIN nodes

(* C29: the ignore policy is not applied to the root: for every existing,  *)
(* readable root, whatever its own name, the tree mapping holds the root   *)
(* and the top-level entries the policy does not match, and                *)
(* project.Structure holds the root node.                                  *)
C29_RootNeverIgnored ==
    (TreeBuilt /\ fs.rootExists) =>
        /\ <<".">> \in DOMAIN nodes
        /\ \A p \in fs.files \cup fs.dirs :
              (Len(p) = 1 /\ ~shouldSkip(fs, p)) => p \in DOMAIN nodes
        /\ Len(project.Structure) = 1
        /\ project.Structure[1].Path = <<".">>

(* C30: every key of the folder-structure mapping of a run names a         *)
(* directory that exists under the project root.                           *)
C30_FolderKeysExist ==
    (rev = "parser" /\ pc \in {"DependencyExtraction", "Assembled", "Failed"}) =>
        \A k \in DOMAIN project.FolderStructure :
            /\ Last(k) = "/"
            /\ Front(k) \in fs.dirs

============================================================================
